---- MODULE Spec2Model ----
(***************************************************************************)
(* Polygon arbitrage detector (src/src/main.rs): the polling driver of     *)
(* main, the quote fetch get_price and the evaluator check_opportunity.    *)
(*                                                                         *)
(* Numbers.  Every f64 of a modelled run is a dyadic rational with a small *)
(* numerator, on which IEEE-754 double arithmetic is exact, so integer     *)
(* arithmetic on the scaled values below computes what the code computes:  *)
(*   rates (price_a, price_b) and settings.amount_in   in halves  (x * 2), *)
(*   profits, simulated_gas_cost_usdc, the threshold   in quarters (x * 4).*)
(* A product of two values in halves is a value in quarters.               *)
(* A U256 is the record [hi, lo] of its upper and lower 128 bits.          *)
(***************************************************************************)
EXTENDS FiniteSets, Integers, Naturals, Sequences, TLC

VARIABLES
    pc,               \* where main is: see PcValues
    settings,         \* the deserialized Settings (read-only after startup)
    due,              \* expirations of `interval` not yet consumed by tick()
    tick,             \* number of loop iterations begun
    amount_in,        \* main's local amount_in (U256) of the current iteration
    inflight,         \* quote requests sent and not yet answered
    reqs,             \* requests sent per venue during the current iteration
    price_on_dex_a,   \* main's local: Result<f64> of the first get_price
    price_on_dex_b,   \* main's local: Result<f64> of the second get_price
    evaluation,       \* <<>> or <<locals of check_opportunity>> of this iteration
    out,              \* lines printed during the current iteration
    config_file,      \* what ./config/settings holds when main starts
    rpc_url,          \* the environment's POLYGON_RPC_URL when main starts
    answers,          \* per venue, <<>> or <<what its call of this iteration returned>>
    sent,             \* the requests sent during the current iteration, in order
    notice_log        \* <<cause, line>> of the failure notices printed so far, for
                      \* the iterations that failed for a single cause

vars == <<pc, settings, due, tick, amount_in, inflight, reqs,
          price_on_dex_a, price_on_dex_b, evaluation, out,
          config_file, rpc_url, answers, sent, notice_log>>

\* ------------------------------------------------------------------ bounds
MaxTicks == 2
MaxDue == 2

\* ----------------------------------------------------------- input domains
\* settings.amount_in, in halves: 0, 0.5, 1.0
AmountInValues == {0, 1, 2}
\* settings.simulated_gas_cost_usdc, in quarters: -2.0, 2.0, 5.0
GasCostValues == {-8, 8, 20}
\* settings.minimum_profit_threshold, in quarters: -1.0, 0.5, 1.0
ThresholdValues == {-4, 2, 4}
\* settings.check_interval_seconds
IntervalValues == {0, 1}
\* ./config/settings: complete and well-formed, lacking a required field, or
\* with a numeric field that does not parse
ConfigFileValues == {"ok", "missing_field", "malformed_number"}
\* POLYGON_RPC_URL: a URL, not set, or not a URL
RpcUrlValues == {"valid", "unset", "invalid"}
\* tokens.decimals_a: 10^80 does not fit a U256
DecimalsAValues == {1, 2, 80}
\* tokens.decimals_b
DecimalsBValues == {0, 1}
\* settings.dexes, by name
DexLists == {<<"A">>, <<"A", "B">>}
\* the low words a venue may quote: with decimals_b in 0..1 the rate is a
\* whole number of halves (with decimals_b = 1: 0, 0.5, 1800.0, 1805.5)
QuoteLows == {0, 5, 18000, 18055}

RECURSIVE Pow10(_)
Pow10(n) == IF n = 0 THEN 1 ELSE 10 * Pow10(n - 1)

U256(n) == [hi |-> 0, lo |-> n]

\* a U256 of 2^128 or more
HugeU256 == [hi |-> 1, lo |-> 0]

QuoteValues == {U256(q) : q \in QuoteLows} \cup {HugeU256}

SettingsValues ==
    [amount_in : AmountInValues,
     simulated_gas_cost_usdc : GasCostValues,
     minimum_profit_threshold : ThresholdValues,
     decimals_a : DecimalsAValues,
     decimals_b : DecimalsBValues,
     dexes : DexLists,
     check_interval_seconds : IntervalValues]

\* the value of `settings` before anything was deserialized into it
NoSettings == CHOOSE s \in SettingsValues : TRUE

\* ------------------------------------------------------------ result values
Unset == [kind |-> "Unset", val |-> 0]
Ok(v) == [kind |-> "Ok", val |-> v]
Err == [kind |-> "Err", val |-> 0]
Panic == [kind |-> "Panic", val |-> 0]

\* what a venue's getAmountsOut call comes back with: a failed call, or the
\* returned amounts (amounts[0] echoes the input amount)
Responses(req) ==
    {[ok |-> FALSE, amounts |-> <<>>]}
    \cup {[ok |-> TRUE, amounts |-> s] :
            s \in {<<>>, <<req.amount_in>>}
                  \cup {<<req.amount_in, q>> : q \in QuoteValues}}

Line(kind, d1, d2, n1, n2, n3, n4) ==
    [kind |-> kind, d1 |-> d1, d2 |-> d2, n1 |-> n1, n2 |-> n2, n3 |-> n3, n4 |-> n4]

\* ------------------------------------------------------------ pure functions
\* parse_units(settings.amount_in, decimals): the amount's decimal string
\* (whole, or with the one fractional digit 5) times 10^(decimals - dec_len);
\* an overflowing power of ten is ConversionError::ParseOverflow.
parse_units(amount, decimals) ==
    LET dec_len == IF amount % 2 = 0 THEN 0 ELSE 1
        digits == IF amount % 2 = 0 THEN amount \div 2 ELSE amount * 5
    IN  IF decimals - dec_len > 77
          THEN Err
          ELSE Ok(U256(digits * Pow10(decimals - dec_len)))

\* U256::as_u128: panics when a bit above the 128th is set
as_u128(x) == IF x.hi # 0 THEN Panic ELSE Ok(x.lo)

\* get_price taking a missing second amount for the rate 0
get_price_zero_rate(resp, tokens) ==
    IF ~resp.ok
      THEN Err
      ELSE IF Len(resp.amounts) >= 2
             THEN LET a == as_u128(resp.amounts[2])
                  IN  IF a.kind = "Panic"
                        THEN Panic
                        ELSE Ok((a.val * 2) \div Pow10(tokens.decimals_b))
             ELSE Ok(0)

\* get_price dividing by the base token's precision (decimals_a)
get_price_base_decimals(resp, tokens) ==
    IF ~resp.ok
      THEN Err
      ELSE IF Len(resp.amounts) >= 2
             THEN LET a == as_u128(resp.amounts[2])
                  IN  IF a.kind = "Panic"
                        THEN Panic
                        ELSE Ok((a.val * 2) \div Pow10(tokens.decimals_a))
             ELSE Err

\* get_price, from the response of the call on: the rate in halves
get_price(resp, tokens) ==
    IF ~resp.ok
      THEN Err
      ELSE IF Len(resp.amounts) >= 2
             THEN LET a == as_u128(resp.amounts[2])
                  IN  IF a.kind = "Panic"
                        THEN Panic
                        ELSE Ok((a.val * 2) \div Pow10(tokens.decimals_b))
             ELSE Err

\* the comparison of line 110 with > for <
ABuys_gt(price_a, price_b) == price_a > price_b

\* the comparison of line 110 with <= for <
ABuys_le(price_a, price_b) == price_a <= price_b

\* line 110: whether dex_a is the buy side
ABuys(price_a, price_b) == price_a < price_b

\* line 116 with the two prices exchanged
GrossProfit_reversed(sell_price, buy_price, amount) == (buy_price - sell_price) * amount

\* line 116 with the profit added up over the iterations run so far
GrossProfit_accumulated(sell_price, buy_price, amount) ==
    (sell_price - buy_price) * amount * tick

\* line 116 without the subtraction of the buy price
GrossProfit_sell_only(sell_price, buy_price, amount) == sell_price * amount

\* line 116
GrossProfit(sell_price, buy_price, amount) == (sell_price - buy_price) * amount

\* line 119 adding the cost
SimulatedProfit_plus(gross_profit, cost) == gross_profit + cost

\* line 119
SimulatedProfit(gross_profit, cost) == gross_profit - cost

\* the comparison of line 121 with >= for >
Actionable_ge(simulated_profit, threshold) == simulated_profit >= threshold

\* line 121
Actionable(simulated_profit, threshold) == simulated_profit > threshold

check_opportunity(s, dex_a, dex_b, price_a, price_b) ==
    LET a_buys == ABuys(price_a, price_b)
        buy_dex == IF a_buys THEN dex_a ELSE dex_b
        sell_dex == IF a_buys THEN dex_b ELSE dex_a
        buy_price == IF a_buys THEN price_a ELSE price_b
        sell_price == IF a_buys THEN price_b ELSE price_a
        gross_profit == GrossProfit(sell_price, buy_price, s.amount_in)
        simulated_profit == SimulatedProfit(gross_profit, s.simulated_gas_cost_usdc)
    IN  [price_a |-> price_a, price_b |-> price_b,
         buy_dex |-> buy_dex, sell_dex |-> sell_dex,
         buy_price |-> buy_price, sell_price |-> sell_price,
         gross_profit |-> gross_profit,
         simulated_profit |-> simulated_profit,
         actionable |-> Actionable(simulated_profit, s.minimum_profit_threshold)]

\* the lines check_opportunity prints (122-130)
OpportunityLines(s, r) ==
    IF r.actionable
      THEN << Line("opportunity", r.buy_dex, r.sell_dex, s.amount_in,
                   r.gross_profit, s.simulated_gas_cost_usdc, r.simulated_profit) >>
      ELSE << >>

\* line 81 taking the branch when either result is Ok
BothOk_either(ra, rb) == ra.kind = "Ok" \/ rb.kind = "Ok"

\* line 81: the pattern (Ok(price_a), Ok(price_b))
BothOk(ra, rb) == ra.kind = "Ok" /\ rb.kind = "Ok"

\* -------------------------------------------------------------------- state
PcValues == {"startup", "waiting", "callA", "awaitA", "callB", "awaitB",
             "match", "exited", "panicked"}

Init ==
    /\ pc = "startup"
    /\ config_file \in ConfigFileValues
    /\ IF config_file = "ok"
         THEN settings \in SettingsValues /\ rpc_url \in RpcUrlValues
         ELSE settings = NoSettings /\ rpc_url = "valid"
    /\ answers = [d \in 1..2 |-> << >>]
    /\ sent = << >>
    /\ notice_log = {}
    /\ due = 0
    /\ tick = 0
    /\ amount_in = U256(0)
    /\ inflight = {}
    /\ reqs = [d \in 1..2 |-> 0]
    /\ price_on_dex_a = Unset
    /\ price_on_dex_b = Unset
    /\ evaluation = << >>
    /\ out = << >>

\* the test of line 53 letting a single venue through
TooFewDexes_one(dexes) == Len(dexes) < 1

\* line 53
TooFewDexes(dexes) == Len(dexes) < 2

\* lines 47-69: the settings are built and deserialized (an error returns
\* from main), the venue count is checked (panic), the provider is made from
\* POLYGON_RPC_URL (an error returns from main) and the interval is created
\* (a zero period panics); the interval's first tick completes immediately
Startup ==
    /\ pc = "startup"
    /\ IF config_file # "ok"
         THEN pc' = "exited" /\ due' = due
         ELSE IF TooFewDexes(settings.dexes)
                THEN pc' = "panicked" /\ due' = due
                ELSE IF rpc_url # "valid"
                       THEN pc' = "exited" /\ due' = due
                       ELSE IF settings.check_interval_seconds = 0
                              THEN pc' = "panicked" /\ due' = due
                              ELSE pc' = "waiting" /\ due' = 1
    /\ UNCHANGED <<settings, tick, amount_in, inflight, reqs,
                   price_on_dex_a, price_on_dex_b, evaluation, out,
                   config_file, rpc_url, answers, sent, notice_log>>

\* the interval's period elapses, whatever main is doing (missed ticks are
\* kept and delivered in a burst)
TimerFire ==
    /\ pc \notin {"startup", "exited", "panicked"}
    /\ due < MaxDue
    /\ due' = due + 1
    /\ UNCHANGED <<pc, settings, tick, amount_in, inflight, reqs,
                   price_on_dex_a, price_on_dex_b, evaluation, out,
                   config_file, rpc_url, answers, sent, notice_log>>

\* an iteration begun by the timer alone, while a fetch is being awaited
TickReady_overlap == due > 0 /\ pc \in {"waiting", "awaitA", "awaitB"}

\* line 71: interval.tick().await completes only at the top of the loop
TickReady == pc = "waiting" /\ due > 0

\* lines 71-75: a new iteration; its locals are fresh
Tick ==
    /\ TickReady
    /\ tick < MaxTicks
    /\ due' = due - 1
    /\ tick' = tick + 1
    /\ out' = << Line("checking", "", "", 0, 0, 0, 0) >>
    /\ inflight' = inflight
    /\ reqs' = [d \in 1..2 |-> 0]
    /\ price_on_dex_a' = Unset
    /\ price_on_dex_b' = Unset
    /\ evaluation' = << >>
    /\ LET a == parse_units(settings.amount_in, settings.decimals_a)
       IN  IF a.kind = "Err"
             THEN pc' = "exited" /\ amount_in' = U256(0)
             ELSE pc' = "callA" /\ amount_in' = a.val
    /\ answers' = [d \in 1..2 |-> << >>]
    /\ sent' = << >>
    /\ UNCHANGED <<settings, config_file, rpc_url, notice_log>>

\* the call of lines 95-96 with the path reversed
Request_reversed(d) ==
    [dex |-> d, tick |-> tick, amount_in |-> amount_in, path |-> <<"usdc", "weth">>]

\* the call get_price makes on a venue's router (lines 95-96)
Request(d) ==
    [dex |-> d, tick |-> tick, amount_in |-> amount_in, path |-> <<"weth", "usdc">>]

\* line 78, to the await of line 96: the call on contract_a is sent
IssueA ==
    /\ pc = "callA"
    /\ pc' = "awaitA"
    /\ inflight' = inflight \cup {Request(1)}
    /\ reqs' = [reqs EXCEPT ![1] = @ + 1]
    /\ sent' = Append(sent, Request(1))
    /\ UNCHANGED <<settings, due, tick, amount_in,
                   price_on_dex_a, price_on_dex_b, evaluation, out,
                   config_file, rpc_url, answers, notice_log>>

\* line 79, to the await of line 96: the call on contract_b is sent
IssueB ==
    /\ pc = "callB"
    /\ pc' = "awaitB"
    /\ inflight' = inflight \cup {Request(2)}
    /\ reqs' = [reqs EXCEPT ![2] = @ + 1]
    /\ sent' = Append(sent, Request(2))
    /\ UNCHANGED <<settings, due, tick, amount_in,
                   price_on_dex_a, price_on_dex_b, evaluation, out,
                   config_file, rpc_url, answers, notice_log>>

\* lines 96-104, then line 78: the call returns and get_price's result is
\* bound to price_on_dex_a
RespondA ==
    /\ pc = "awaitA"
    /\ \E req \in inflight : \E resp \in Responses(req) :
         LET r == get_price(resp, settings)
         IN  /\ req.dex = 1
             /\ inflight' = inflight \ {req}
             /\ IF r.kind = "Panic"
                  THEN pc' = "panicked" /\ price_on_dex_a' = price_on_dex_a
                  ELSE pc' = "callB" /\ price_on_dex_a' = r
             /\ answers' = [answers EXCEPT ![1] = << resp >>]
    /\ UNCHANGED <<settings, due, tick, amount_in, reqs,
                   price_on_dex_b, evaluation, out,
                   config_file, rpc_url, sent, notice_log>>

\* lines 96-104, then line 79
RespondB ==
    /\ pc = "awaitB"
    /\ \E req \in inflight : \E resp \in Responses(req) :
         LET r == get_price(resp, settings)
         IN  /\ req.dex = 2
             /\ inflight' = inflight \ {req}
             /\ IF r.kind = "Panic"
                  THEN pc' = "panicked" /\ price_on_dex_b' = price_on_dex_b
                  ELSE pc' = "match" /\ price_on_dex_b' = r
             /\ answers' = [answers EXCEPT ![2] = << resp >>]
    /\ UNCHANGED <<settings, due, tick, amount_in, reqs,
                   price_on_dex_a, evaluation, out,
                   config_file, rpc_url, sent, notice_log>>

\* line 81 reached without awaiting the second get_price
DispatchReady_early == pc \in {"match", "awaitB"}

\* line 81 is reached once both get_price calls have returned
DispatchReady == pc = "match"

\* line 88: the one message of the else arm, whatever the two results hold
FailureNotice(ra, rb) == Line("error", "", "", 0, 0, 0, 0)

\* why the calls of this iteration gave no quote: a call that did not
\* complete, a response of fewer than two amounts, or one of each
FailureCause ==
    LET failed == \E d \in 1..2 : answers[d] # << >> /\ ~answers[d][1].ok
        incomplete == \E d \in 1..2 :
            answers[d] # << >> /\ answers[d][1].ok /\ Len(answers[d][1].amounts) < 2
    IN  IF failed /\ ~incomplete THEN "FetchFailure"
        ELSE IF incomplete /\ ~failed THEN "QuoteIncomplete"
        ELSE "Both"

\* lines 81-89
Dispatch ==
    /\ DispatchReady
    /\ pc' = "waiting"
    /\ IF BothOk(price_on_dex_a, price_on_dex_b)
         THEN LET r == check_opportunity(settings, settings.dexes[1], settings.dexes[2],
                                         price_on_dex_a.val, price_on_dex_b.val)
              IN  /\ evaluation' = << r >>
                  /\ out' = out \o << Line("price", settings.dexes[1], "", r.price_a, 0, 0, 0),
                                      Line("price", settings.dexes[2], "", r.price_b, 0, 0, 0) >>
                                \o OpportunityLines(settings, r)
                  /\ notice_log' = notice_log
         ELSE LET n == FailureNotice(price_on_dex_a, price_on_dex_b)
              IN  /\ evaluation' = evaluation
                  /\ out' = Append(out, n)
                  /\ notice_log' = IF FailureCause = "Both"
                                     THEN notice_log
                                     ELSE notice_log \cup {<<FailureCause, n>>}
    /\ UNCHANGED <<settings, due, tick, amount_in, inflight, reqs,
                   price_on_dex_a, price_on_dex_b,
                   config_file, rpc_url, answers, sent>>

Next ==
    \/ Startup
    \/ TimerFire
    \/ Tick
    \/ IssueA
    \/ RespondA
    \/ IssueB
    \/ RespondB
    \/ Dispatch

Spec == Init /\ [][Next]_vars

\* the runtime keeps polling main, the timer keeps running and every call on
\* a venue returns (the provider's own timeout)
FairSpec ==
    /\ Spec
    /\ WF_vars(Startup)
    /\ WF_vars(TimerFire)
    /\ WF_vars(Tick)
    /\ WF_vars(IssueA)
    /\ WF_vars(RespondA)
    /\ WF_vars(IssueB)
    /\ WF_vars(RespondB)
    /\ WF_vars(Dispatch)

TypeOK ==
    /\ pc \in PcValues
    /\ settings \in SettingsValues
    /\ due \in 0..(MaxDue + 1)
    /\ tick \in 0..(MaxTicks + 1)
    /\ Cardinality(inflight) <= 2
    /\ Len(evaluation) <= 1
    /\ config_file \in ConfigFileValues
    /\ rpc_url \in RpcUrlValues
    /\ Len(sent) <= 2
    /\ \A d \in 1..2 : Len(answers[d]) <= 1

\* ------------------------------------------------------------------ claims
Terminated == pc \in {"exited", "panicked"}

HasLine(kind) == \E i \in 1..Len(out) : out[i].kind = kind

\* C1: in a tick where get_price failed for venue A, venue B or both,
\* check_opportunity is not invoked, no rate and no opportunity is printed,
\* and whatever is evaluated is evaluated on this tick's two results.
FailedFetchSkipsTick ==
    /\ (price_on_dex_a.kind = "Err" \/ price_on_dex_b.kind = "Err")
         => /\ evaluation = << >>
            /\ ~HasLine("price")
            /\ ~HasLine("opportunity")
    /\ evaluation # << >>
         => /\ price_on_dex_a = Ok(evaluation[1].price_a)
            /\ price_on_dex_b = Ok(evaluation[1].price_b)

\* C1 witness: the second tick ended with venue A failed, venue B answered
FailedFetchSkipsTick_witness ==
    /\ pc = "waiting"
    /\ tick = 2
    /\ price_on_dex_a.kind = "Err"
    /\ price_on_dex_b.kind = "Ok"
    /\ HasLine("error")

\* C2 (as claimed): once the first tick has begun, nothing that happens in a
\* tick terminates the process.
PerTickErrorsNonFatal == tick >= 1 => ~Terminated

\* C3 (as claimed): after a tick in which venue A failed and venue B
\* answered, the next tick comes and sends one request to each venue.
NextTickAfterFailure ==
    \A k \in 1..(MaxTicks - 1) :
        (tick = k /\ pc = "waiting"
           /\ price_on_dex_a.kind = "Err" /\ price_on_dex_b.kind = "Ok")
        ~> (tick = k + 1 /\ reqs[1] = 1 /\ reqs[2] = 1)

\* C4 (as claimed): when a tick is over, exactly one request has been sent
\* to venue A and exactly one to venue B.
OneRequestPerVenuePerTick ==
    (tick >= 1 /\ (pc = "waiting" \/ Terminated))
        => (reqs[1] = 1 /\ reqs[2] = 1)

\* C5: the evaluation of a tick (line 81 on) begins only when both of the
\* tick's get_price calls have returned, with a success or a failure.
EvaluationAfterBothFetches ==
    [][(tick' = tick /\ out' # out)
         => /\ inflight = {}
            /\ reqs[1] = 1 /\ reqs[2] = 1
            /\ price_on_dex_a.kind \in {"Ok", "Err"}
            /\ price_on_dex_b.kind \in {"Ok", "Err"}]_vars

\* C5 witness: a tick was evaluated
EvaluationAfterBothFetches_witness ==
    /\ pc = "waiting"
    /\ evaluation # << >>
    /\ HasLine("price")

\* C6: ticks do not overlap: a tick begins only when no request is
\* outstanding and the previous tick's work is over, and every outstanding
\* request belongs to the current tick, one at a time.
NoTickOverlap ==
    /\ [](/\ \A r \in inflight : r.tick = tick
          /\ Cardinality(inflight) <= 1
          /\ pc = "waiting" => inflight = {})
    /\ [][tick' # tick => (pc = "waiting" /\ inflight = {})]_vars

\* C6 witness: the interval expired while a fetch of the second tick was
\* still outstanding
NoTickOverlap_witness ==
    /\ tick = 2
    /\ inflight # {}
    /\ due >= 1

\* C7: price_a < price_b buys on dex_a and sells on dex_b; price_a > price_b
\* and price_a = price_b buy on dex_b and sell on dex_a.
DirectionCorrect ==
    evaluation # << >> =>
        LET r == evaluation[1]
        IN  /\ r.price_a = price_on_dex_a.val /\ r.price_b = price_on_dex_b.val
            /\ r.price_a < r.price_b
                 => /\ r.buy_dex = settings.dexes[1] /\ r.sell_dex = settings.dexes[2]
                    /\ r.buy_price = r.price_a /\ r.sell_price = r.price_b
            /\ r.price_a >= r.price_b
                 => /\ r.buy_dex = settings.dexes[2] /\ r.sell_dex = settings.dexes[1]
                    /\ r.buy_price = r.price_b /\ r.sell_price = r.price_a

\* C7 witness: equal non-zero rates were evaluated, buying on dex_b
DirectionCorrect_witness ==
    /\ evaluation # << >>
    /\ evaluation[1].price_a = evaluation[1].price_b
    /\ evaluation[1].price_a > 0
    /\ evaluation[1].buy_dex = "B"

\* the net profit of two rates, from the formulas of sections 4.2
NetProfitOf(pa, pb) ==
    LET hi == IF pa < pb THEN pb ELSE pa
        lo == IF pa < pb THEN pa ELSE pb
    IN  (hi - lo) * settings.amount_in - settings.simulated_gas_cost_usdc

\* C8: when both fetches of a tick succeeded, the opportunity is printed
\* if and only if the net profit is strictly above the threshold.
ThresholdBoundary ==
    (pc = "waiting" /\ BothOk(price_on_dex_a, price_on_dex_b))
        => (HasLine("opportunity")
              <=> NetProfitOf(price_on_dex_a.val, price_on_dex_b.val)
                    > settings.minimum_profit_threshold)

\* C8 witness: a net profit one quarter (the unit of precision) above the
\* threshold was reported
ThresholdBoundary_witness ==
    /\ pc = "waiting"
    /\ BothOk(price_on_dex_a, price_on_dex_b)
    /\ NetProfitOf(price_on_dex_a.val, price_on_dex_b.val)
         = settings.minimum_profit_threshold + 1
    /\ HasLine("opportunity")

Tie == evaluation # << >> /\ evaluation[1].price_a = evaluation[1].price_b

\* C9 (as claimed): equal rates give a zero gross profit and are never
\* actionable, whatever the configuration.
TieNeverActionable ==
    Tie => (evaluation[1].gross_profit = 0 /\ ~evaluation[1].actionable)

\* C9 (amended): equal rates give a zero gross profit, and the result is
\* actionable exactly when minus the simulated cost is above the threshold;
\* so never when cost + threshold >= 0.
TieActionableOnlyByConfig ==
    Tie => /\ evaluation[1].gross_profit = 0
           /\ evaluation[1].simulated_profit = 0 - settings.simulated_gas_cost_usdc
           /\ evaluation[1].actionable
                <=> 0 - settings.simulated_gas_cost_usdc > settings.minimum_profit_threshold
           /\ settings.simulated_gas_cost_usdc + settings.minimum_profit_threshold >= 0
                => (~evaluation[1].actionable /\ ~HasLine("opportunity"))

\* C9 witness: equal non-zero rates were evaluated for a non-zero amount
\* under a non-negative cost and threshold
TieActionableOnlyByConfig_witness ==
    /\ Tie
    /\ evaluation[1].price_a > 0
    /\ settings.amount_in > 0
    /\ settings.simulated_gas_cost_usdc >= 0
    /\ settings.minimum_profit_threshold >= 0
    /\ ~evaluation[1].actionable

\* C10 (as claimed): a quoted amount of 0 is a failure: get_price never
\* yields the rate 0 and the evaluator is never given one.
ZeroQuoteIsFailure ==
    /\ price_on_dex_a # Ok(0)
    /\ price_on_dex_b # Ok(0)
    /\ evaluation # << >>
         => (evaluation[1].price_a # 0 /\ evaluation[1].price_b # 0)

Price(d) == IF d = 1 THEN price_on_dex_a ELSE price_on_dex_b

Answered(d) == answers[d] # << >>

Incomplete(d) ==
    Answered(d) /\ answers[d][1].ok /\ Len(answers[d][1].amounts) < 2

ErrorLines == {i \in 1..Len(out) : out[i].kind = "error"}

\* C11: a call that returns fewer than two amounts makes get_price return
\* the error a failed call gives, never a rate, and the tick is skipped: no
\* evaluation, no rate or opportunity printed, the one failure notice.
IncompleteQuoteIsFailure ==
    \A d \in 1..2 :
        Incomplete(d)
          => /\ Price(d) = Err
             /\ Price(d) = get_price([ok |-> FALSE, amounts |-> << >>], settings)
             /\ evaluation = << >>
             /\ ~HasLine("price")
             /\ ~HasLine("opportunity")
             /\ pc = "waiting" => Cardinality(ErrorLines) = 1

\* C11 witness: a tick ended in which venue A returned one amount only and
\* venue B a quote
IncompleteQuoteIsFailure_witness ==
    /\ pc = "waiting"
    /\ Incomplete(1)
    /\ Len(answers[1][1].amounts) = 1
    /\ price_on_dex_b.kind = "Ok"
    /\ HasLine("error")

\* C12 (as claimed): the notice of a tick that failed by a response of fewer
\* than two amounts differs from the notice of a tick that failed by a call
\* that did not complete.
IncompleteNoticeDistinct ==
    \A p \in notice_log : \A q \in notice_log :
        p[1] # q[1] => p[2] # q[2]

\* C13: with fewer than two venues configured, or a settings file lacking a
\* field or holding a malformed number, main stops during startup: the loop
\* is never entered, nothing is sent to a venue and nothing is printed.
StartupErrorsFatal ==
    (config_file # "ok" \/ Len(settings.dexes) < 2)
        => /\ pc \in {"startup", "exited", "panicked"}
           /\ tick = 0
           /\ due = 0
           /\ inflight = {}
           /\ sent = << >>
           /\ reqs = [d \in 1..2 |-> 0]
           /\ out = << >>

\* C13 witness: main returned at startup on a malformed number
StartupErrorsFatal_witness ==
    /\ pc = "exited"
    /\ config_file = "malformed_number"
    /\ tick = 0

\* C14 (as claimed): when a tick is over, it has printed exactly one failure
\* notice if a fetch of it failed, and none if both succeeded.
OneNoticePerFailedTick ==
    (tick >= 1 /\ (pc = "waiting" \/ Terminated))
        => /\ (price_on_dex_a.kind = "Err" \/ price_on_dex_b.kind = "Err")
                => Cardinality(ErrorLines) = 1
           /\ BothOk(price_on_dex_a, price_on_dex_b)
                => Cardinality(ErrorLines) = 0

\* the rate of venue d's answer of this tick: quote / 10^decimals_b, in halves
QuotedRate(d) == (answers[d][1].amounts[2].lo * 2) \div Pow10(settings.decimals_b)

\* C15: the outcome of a tick is the function below of this tick's two
\* quotes and of the settings, which never change; nothing of an earlier
\* tick enters it.
TickIsolation ==
    /\ [](evaluation # << >> =>
            LET ra == QuotedRate(1)
                rb == QuotedRate(2)
                lo == IF ra < rb THEN ra ELSE rb
                hi == IF ra < rb THEN rb ELSE ra
                gross == (hi - lo) * settings.amount_in
                net == gross - settings.simulated_gas_cost_usdc
                r == evaluation[1]
            IN  /\ r.buy_dex = (IF ra < rb THEN settings.dexes[1] ELSE settings.dexes[2])
                /\ r.sell_dex = (IF ra < rb THEN settings.dexes[2] ELSE settings.dexes[1])
                /\ r.buy_price = lo
                /\ r.sell_price = hi
                /\ r.gross_profit = gross
                /\ r.simulated_profit = net
                /\ r.actionable = (net > settings.minimum_profit_threshold))
    /\ [][settings' = settings]_vars

\* C15 witness: the second tick was evaluated with a profit
TickIsolation_witness ==
    /\ tick = 2
    /\ evaluation # << >>
    /\ evaluation[1].gross_profit > 0

ProfitFormula ==
    evaluation # << >> =>
        LET r == evaluation[1]
        IN  /\ r.gross_profit = (r.sell_price - r.buy_price) * settings.amount_in
            /\ r.simulated_profit = r.gross_profit - settings.simulated_gas_cost_usdc
            /\ (/\ settings.amount_in = 2
                /\ r.price_a = 3600
                /\ r.price_b = 3611
                /\ settings.minimum_profit_threshold = 4)
                 => /\ r.buy_dex = "A" /\ r.sell_dex = "B"
                    /\ r.gross_profit = 22
                    /\ settings.simulated_gas_cost_usdc = 8
                         => (r.simulated_profit = 14 /\ r.actionable
                               /\ HasLine("opportunity"))
                    /\ settings.simulated_gas_cost_usdc = 20
                         => (r.simulated_profit = 2 /\ ~r.actionable
                               /\ ~HasLine("opportunity"))

\* C17 witness: the scenario with cost 2.0 was evaluated
ProfitFormula_witness ==
    /\ evaluation # << >>
    /\ settings.amount_in = 2
    /\ evaluation[1].price_a = 3600
    /\ evaluation[1].price_b = 3611
    /\ settings.minimum_profit_threshold = 4
    /\ settings.simulated_gas_cost_usdc = 8
    /\ evaluation[1].actionable

\* the rates get_price can return under the settings
Rates == {(q * 2) \div Pow10(settings.decimals_b) : q \in QuoteLows}

Alternative(pa, pb) ==
    check_opportunity(settings, settings.dexes[1], settings.dexes[2], pa, pb)

Spread(r) == r.sell_price - r.buy_price

\* C18 (as claimed): under the same settings, a pair of rates further apart
\* than the evaluated pair has a strictly greater gross and net profit.
ProfitStrictlyMonotone ==
    evaluation # << >> =>
        \A pa \in Rates : \A pb \in Rates :
            Spread(Alternative(pa, pb)) > Spread(evaluation[1])
              => /\ Alternative(pa, pb).gross_profit > evaluation[1].gross_profit
                 /\ Alternative(pa, pb).simulated_profit > evaluation[1].simulated_profit

\* C18 (amended): so it is for an amount above zero; for the amount zero the
\* gross and the net profit are the same for every pair of rates.
ProfitMonotoneForPositiveAmount ==
    evaluation # << >> =>
        \A pa \in Rates : \A pb \in Rates :
            /\ (settings.amount_in > 0
                  /\ Spread(Alternative(pa, pb)) > Spread(evaluation[1]))
                 => /\ Alternative(pa, pb).gross_profit > evaluation[1].gross_profit
                    /\ Alternative(pa, pb).simulated_profit
                         > evaluation[1].simulated_profit
            /\ settings.amount_in = 0
                 => /\ Alternative(pa, pb).gross_profit = evaluation[1].gross_profit
                    /\ Alternative(pa, pb).simulated_profit
                         = evaluation[1].simulated_profit

\* C18 witness: rates half a unit apart were evaluated for an amount above
\* zero, and rates further apart exist
ProfitMonotoneForPositiveAmount_witness ==
    /\ evaluation # << >>
    /\ settings.amount_in > 0
    /\ Spread(evaluation[1]) = 1
    /\ \E pa \in Rates : \E pb \in Rates : Spread(Alternative(pa, pb)) > 1

\* C19: every request of a tick carries the configured amount times
\* 10^decimals_a and the path [weth, usdc]; the first goes to venue A, the
\* second to venue B, with the same amount and path.
SameAmountBothVenues ==
    /\ \A i \in 1..Len(sent) :
         /\ sent[i].dex = i
         /\ sent[i].tick = tick
         /\ sent[i].amount_in.hi = 0
         /\ 2 * sent[i].amount_in.lo = settings.amount_in * Pow10(settings.decimals_a)
         /\ sent[i].path = <<"weth", "usdc">>
    /\ Len(sent) = 2
         => (sent[1].amount_in = sent[2].amount_in /\ sent[1].path = sent[2].path)
    /\ \A r \in inflight : \E i \in 1..Len(sent) : sent[i] = r

\* C19 witness: both requests of a tick were sent for the amount 0.5 where
\* the two precisions differ
SameAmountBothVenues_witness ==
    /\ Len(sent) = 2
    /\ settings.amount_in = 1
    /\ settings.decimals_a = 2
    /\ settings.decimals_b = 1
    /\ sent[2].amount_in = U256(50)

\* C20: an evaluation buys on one of the two configured venues and sells on
\* the other, at a sell rate not below the buy rate; so for an amount of zero
\* or more the gross profit is not negative, and the net profit is not above
\* the gross profit less the cost.
EvaluationOrdered ==
    evaluation # << >> =>
        LET r == evaluation[1]
        IN  /\ r.buy_dex # r.sell_dex
            /\ {r.buy_dex, r.sell_dex} = {settings.dexes[1], settings.dexes[2]}
            /\ r.sell_price >= r.buy_price
            /\ {r.buy_price, r.sell_price} = {r.price_a, r.price_b}
            /\ settings.amount_in >= 0 => r.gross_profit >= 0
            /\ r.simulated_profit <= r.gross_profit - settings.simulated_gas_cost_usdc

\* C20 witness: venue A quoted the higher rate and the gross profit is
\* above zero
EvaluationOrdered_witness ==
    /\ evaluation # << >>
    /\ evaluation[1].price_a > evaluation[1].price_b
    /\ evaluation[1].sell_dex = "A"
    /\ evaluation[1].gross_profit > 0
====
